---- MODULE Spec2Model ----
(***************************************************************************)
(* Model of the date/time skill (src/__init__.py): the timezone resolvers  *)
(* get_timezone / get_local_datetime / _get_timezone, the location         *)
(* extractor _extract_location, and the display gate between the timer     *)
(* callback update_display and the query handlers.                         *)
(*                                                                         *)
(* Python strings are sequences of one-character strings, so that lower(), *)
(* replace(), split(), strip() and the similarity ratio are computed on    *)
(* the characters.  Python's None is the one-element tuple <<"None">>,     *)
(* which is no character sequence.                                         *)
(***************************************************************************)
EXTENDS Naturals, Integers, Sequences, FiniteSets, TLC

None == <<"None">>

\* ------------------------------------------------------------------------
\* String constants of the modelled world.
\* ------------------------------------------------------------------------
S_AmericaIndianaKnox ==
    <<"A", "m", "e", "r", "i", "c", "a", "/", "I", "n", "d", "i", "a", "n", "a", "/", "K", "n", "o", "x">>
S_AmericaKnoxIN ==
    <<"A", "m", "e", "r", "i", "c", "a", "/", "K", "n", "o", "x", "_", "I", "N">>
S_AsiaShanghai ==
    <<"A", "s", "i", "a", "/", "S", "h", "a", "n", "g", "h", "a", "i">>
S_AustraliaSydney ==
    <<"A", "u", "s", "t", "r", "a", "l", "i", "a", "/", "S", "y", "d", "n", "e", "y">>
S_CanadaEastern ==
    <<"C", "a", "n", "a", "d", "a", "/", "E", "a", "s", "t", "e", "r", "n">>
S_Cuba ==
    <<"C", "u", "b", "a">>
S_USCentral ==
    <<"U", "S", "/", "C", "e", "n", "t", "r", "a", "l">>
S_USEastern ==
    <<"U", "S", "/", "E", "a", "s", "t", "e", "r", "n">>
S_Dallas ==
    <<"D", "a", "l", "l", "a", "s">>
S_dallas ==
    <<"d", "a", "l", "l", "a", "s">>
S_China ==
    <<"C", "h", "i", "n", "a">>
S_china ==
    <<"c", "h", "i", "n", "a">>
S_Sydney ==
    <<"S", "y", "d", "n", "e", "y">>
S_eastern ==
    <<"e", "a", "s", "t", "e", "r", "n">>
S_knox ==
    <<"k", "n", "o", "x">>
S_qqq ==
    <<"q", "q", "q">>
S_GMT8 ==
    <<"G", "M", "T", "+", "8">>
S_AsiaShanghaiPadded ==
    <<" ", "A", "s", "i", "a", "/", "S", "h", "a", "n", "g", "h", "a", "i", " ">>
S_MarsKnox ==
    <<"M", "a", "r", "s", "/", "K", "n", "o", "x">>

\* ------------------------------------------------------------------------
\* Python string operations.
\* ------------------------------------------------------------------------
UpperChars ==
    <<"A", "B", "C", "D", "E", "F", "G", "H", "I", "J", "K", "L", "M",
      "N", "O", "P", "Q", "R", "S", "T", "U", "V", "W", "X", "Y", "Z">>
LowerChars ==
    <<"a", "b", "c", "d", "e", "f", "g", "h", "i", "j", "k", "l", "m",
      "n", "o", "p", "q", "r", "s", "t", "u", "v", "w", "x", "y", "z">>

\* str.lower() on one character
LowerChar(c) ==
    IF \E i \in 1..Len(UpperChars) : UpperChars[i] = c
    THEN LowerChars[CHOOSE i \in 1..Len(UpperChars) : UpperChars[i] = c]
    ELSE c

\* str.lower()
Lower(s) == [i \in 1..Len(s) |-> LowerChar(s[i])]

\* str.replace(old, new) for one-character old and new
Replace(s, old, new) == [i \in 1..Len(s) |-> IF s[i] = old THEN new ELSE s[i]]

\* str.split(sep) for a one-character sep: the list of segments
RECURSIVE Split(_, _)
Split(s, sep) ==
    IF \A i \in 1..Len(s) : s[i] # sep
    THEN <<s>>
    ELSE LET k == CHOOSE i \in 1..Len(s) :
                     s[i] = sep /\ \A j \in 1..(i - 1) : s[j] # sep
         IN  <<SubSeq(s, 1, k - 1)>> \o Split(SubSeq(s, k + 1, Len(s)), sep)

\* str.strip(): leading and trailing blanks removed
RECURSIVE Strip(_)
Strip(s) ==
    IF Len(s) = 0 THEN s
    ELSE IF s[1] = " " THEN Strip(Tail(s))
    ELSE IF s[Len(s)] = " " THEN Strip(SubSeq(s, 1, Len(s) - 1))
    ELSE s

\* ------------------------------------------------------------------------
\* mycroft.util.parse.fuzzy_match(x, against) is
\* difflib.SequenceMatcher(None, x, against).ratio(): 2*M/T, M the total
\* size of the matching blocks found by recursive longest-match, T the sum
\* of the two lengths.  A score is the exact fraction n/d.
\* ------------------------------------------------------------------------
\* length of the common run of a from i and b from j
RECURSIVE CommonRun(_, _, _, _)
CommonRun(a, b, i, j) ==
    IF i > Len(a) \/ j > Len(b) \/ a[i] # b[j] THEN 0
    ELSE 1 + CommonRun(a, b, i + 1, j + 1)

\* find_longest_match: the longest block, earliest in a, then earliest in b
LongestMatch(a, b) ==
    LET Pairs == (1..Len(a)) \X (1..Len(b))
        Better(p, q) ==
            LET kp == CommonRun(a, b, p[1], p[2])
                kq == CommonRun(a, b, q[1], q[2])
            IN  \/ kp > kq
                \/ kp = kq /\ p[1] < q[1]
                \/ kp = kq /\ p[1] = q[1] /\ p[2] <= q[2]
        p == CHOOSE p \in Pairs : \A q \in Pairs : Better(p, q)
    IN  [i |-> p[1], j |-> p[2], k |-> CommonRun(a, b, p[1], p[2])]

\* total size of the matching blocks (get_matching_blocks)
RECURSIVE Matches(_, _)
Matches(a, b) ==
    IF Len(a) = 0 \/ Len(b) = 0 THEN 0
    ELSE LET m == LongestMatch(a, b)
         IN  IF m.k = 0 THEN 0
             ELSE m.k
                  + Matches(SubSeq(a, 1, m.i - 1), SubSeq(b, 1, m.j - 1))
                  + Matches(SubSeq(a, m.i + m.k, Len(a)),
                            SubSeq(b, m.j + m.k, Len(b)))

fuzzy_match(x, against) ==
    IF Len(x) + Len(against) = 0
    THEN [n |-> 1, d |-> 1]
    ELSE [n |-> 2 * Matches(x, against), d |-> Len(x) + Len(against)]

\* comparisons of scores
Gt(p, q) == p.n * q.d > q.n * p.d
Ge(p, q) == p.n * q.d >= q.n * p.d

\* Python max(p, p2, p3): the first maximal argument
Max3(p, p2, p3) ==
    LET m12 == IF Gt(p2, p) THEN p2 ELSE p
    IN  IF Gt(p3, m12) THEN p3 ELSE m12

\* the thresholds 0.8 and 0.3 of get_timezone
SolidChoice == [n |-> 8, d |-> 10]
AskChoice == [n |-> 3, d |-> 10]

\* ------------------------------------------------------------------------
\* The collaborators' data.
\* ------------------------------------------------------------------------
\* pytz.all_timezones, in its (alphabetical) iteration order
all_timezones ==
    <<S_AmericaIndianaKnox, S_AmericaKnoxIN, S_AsiaShanghai,
      S_AustraliaSydney, S_CanadaEastern, S_Cuba, S_USCentral, S_USEastern>>

\* the city table of Astral: sanitized name and timezone
AstralDb ==
    <<[name |-> S_dallas, timezone |-> S_USCentral]>>

\* contents of the translated-name table "timezone.value": none, an entry
\* with a known identifier, an entry with the identifier "GMT+8"
TranslatedTables ==
    { <<>>,
      <<[key |-> S_China, val |-> S_AsiaShanghaiPadded]>>,
      <<[key |-> S_China, val |-> S_GMT8]>> }

\* the configured home timezone code: known, unknown, or not configured
HomeCodes == {S_USCentral, S_MarsKnox, None}

\* the location phrases of the requests
Locations ==
    {None, S_Dallas, S_USEastern, S_china, S_Sydney, S_eastern, S_knox, S_qqq}

\* what the geolocation service does for a lookup: a result with a known
\* or an unknown timezone code, a result without the 'timezone' key, no
\* result at all, or a failed request
GeoOutcomes ==
    { [kind |-> "ok", code |-> S_AustraliaSydney],
      [kind |-> "ok", code |-> S_GMT8],
      [kind |-> "nokey", code |-> None],
      [kind |-> "empty", code |-> None],
      [kind |-> "error", code |-> None] }

\* answers of ask_yesno
Answers == {<<"yes">>, <<"no">>, None}

\* pytz.timezone(zone): the canonical identifier, or UnknownTimeZoneError.
\* Releases of pytz differ in whether the lookup ignores case (ci).
PytzTimezone(zone, ci) ==
    LET Hit(i) == IF ci THEN Lower(all_timezones[i]) = Lower(zone)
                  ELSE all_timezones[i] = zone
    IN  IF zone # None /\ \E i \in 1..Len(all_timezones) : Hit(i)
        THEN [ok |-> TRUE,
              tz |-> all_timezones[CHOOSE i \in 1..Len(all_timezones) : Hit(i)]]
        ELSE [ok |-> FALSE, tz |-> None]

\* self.astral[locale].timezone: the key is sanitized to lower case; KeyError
\* when the city is not in the table
AstralLookup(locale) ==
    LET Hit(i) == AstralDb[i].name = Replace(Lower(locale), " ", "_")
    IN  IF locale # None /\ \E i \in 1..Len(AstralDb) : Hit(i)
        THEN [ok |-> TRUE,
              timezone |-> AstralDb[CHOOSE i \in 1..Len(AstralDb) : Hit(i)].timezone]
        ELSE [ok |-> FALSE, timezone |-> None]

\* the score of one identifier against the target (lines 155-162)
NameScore(name, target) ==
    LET normalized == Split(Replace(Lower(name), "_", " "), "/")
        L == Len(normalized)
    IN  IF L = 1
        THEN fuzzy_match(normalized[1], target)
        ELSE Max3(fuzzy_match(normalized[2], target),
                  fuzzy_match(normalized[L - 1] \o <<" ">> \o normalized[L], target),
                  fuzzy_match(normalized[L] \o <<" ">> \o normalized[L - 1], target))

NoBest == [set |-> FALSE, pct |-> [n |-> 0, d |-> 1], name |-> None]

\* UpdateBest with a strict comparison: the first equal-best is kept
UpdateBest_first(best, pct, name) ==
    IF ~best.set \/ Gt(pct, best.pct)
    THEN [set |-> TRUE, pct |-> pct, name |-> name]
    ELSE best

\* one iteration of the loop (lines 163-164): the new value of best
UpdateBest(best, pct, name) ==
    IF ~best.set \/ Ge(pct, best.pct)
    THEN [set |-> TRUE, pct |-> pct, name |-> name]
    ELSE best

\* ------------------------------------------------------------------------
\* State.
\* ------------------------------------------------------------------------
VARIABLES
    timezones,    \* the translated-name table (translate_namedvalues)
    home_code,    \* config_core['location']['timezone']['code'], or None
    ci,           \* whether pytz.timezone ignores case
    display_tz,   \* self.display_tz
    pc,           \* position of the resolution request
    kind,         \* the entry point of the request
    location,     \* the location argument of the request
    locale,       \* the argument of the running get_timezone call
    retTo,        \* the call site get_timezone returns to
    idx,          \* position of the fuzzy loop in all_timezones
    best,         \* the local variable best of get_timezone
    tz,           \* the local variable tz of the caller
    ret,          \* value returned by the last get_timezone call
    via,          \* tier that produced that value
    tiers,        \* tiers entered by the last get_timezone call, in order
    answer,       \* the answer ask_yesno gave to that call, "unasked" if none
    result,       \* value returned to the caller of the request
    outcome,      \* "pending", "returned", or the exception raised
    asked,        \* ask_yesno prompts issued for the request
    notFound,     \* "time.tz.not.found" notifications spoken for the request
    geoCalls,     \* get_geolocation calls made for the request
    patterns,     \* what re.search gives for each location pattern, in file order
    ex_pc,        \* position of _extract_location
    ex_i,         \* index of the pattern the loop is at
    ex_location,  \* the local variable location of _extract_location
    ex_searched,  \* number of patterns searched so far
    ex_outcome,   \* "pending", "returned", or the exception raised
    answering_query, \* self.answering_query
    displayed_time,  \* self.displayed_time
    gui_time,        \* self.gui['time_string']
    mouth,           \* what the enclosure's mouth display shows
    mouth_events,    \* whether the enclosure's mouth events are active
    show_time,       \* self.settings['show_time']
    display_idle,    \* display_is_idle: no other skill uses the display
    mark1,           \* self.platform == "mycroft_mark_1"
    clock,           \* the minute the wall clock shows
    upc,             \* position of each running update_display call
    utime,           \* the local variable display_time of each call
    waited,          \* whether the timer's call has slept in its wait loop
    q_pc,            \* position of the query handler
    q_handler,       \* the handler that is running
    overlap,         \* how the timer's call touched display state so far
    memo,            \* a finished get_local_datetime call kept for comparison
    ly_pc,           \* position of the leap-year request
    ly_kind,         \* "call" for get_next_leap_year alone, "handler" for the intent
    ly_now,          \* what datetime.datetime.now() gave the handler
    ly_arg,          \* the argument of the outermost get_next_leap_year call
    ly_year,         \* the parameter year of the innermost call
    ly_depth,        \* number of get_next_leap_year frames on the stack
    ly_result,       \* the value get_next_leap_year returned
    ly_spoken        \* the year given to the next.leap.year dialog

envVars == <<timezones, home_code, ci>>
callVars == <<locale, retTo, idx, best, ret, via, tiers, answer>>
reqVars == <<kind, location, tz, result, outcome, asked, notFound, geoCalls>>
tzVars == <<envVars, display_tz, pc, callVars, reqVars>>
tzRest == <<envVars, pc, callVars, reqVars>>
exVars == <<patterns, ex_pc, ex_i, ex_location, ex_searched, ex_outcome>>
dVars == <<answering_query, displayed_time, gui_time, mouth, mouth_events,
           show_time, display_idle, mark1, clock, upc, utime, waited, q_pc,
           q_handler, overlap>>
lyVars == <<ly_pc, ly_kind, ly_now, ly_arg, ly_year, ly_depth, ly_result,
            ly_spoken>>
vars == <<tzVars, exVars, dVars, memo, lyVars>>

TierOrder == <<"astral", "pytz", "translated", "fuzzy", "confirm">>

\* get_timezone returns val, produced by tier v, to its call site
\* (line 188 or line 191 of get_local_datetime)
GtReturn(val, v) ==
    /\ ret' = val
    /\ via' = v
    /\ tz' = val
    /\ pc' = IF retTo = "home" THEN "gld_loc" ELSE "gld_end"
    /\ UNCHANGED outcome

\* get_timezone raises exc, which get_local_datetime does not catch
GtRaise(exc) ==
    /\ outcome' = exc
    /\ pc' = "done"
    /\ UNCHANGED <<ret, via, tz>>

\* get_local_datetime that resolves the home code even when a display
\* override is active
get_local_datetime_no_override ==
    \E loc \in Locations :
        /\ pc = "idle"
        /\ kind' = "legacy"
        /\ location' = loc
        /\ locale' = home_code
        /\ retTo' = "home"
        /\ pc' = "gt_astral"
        /\ UNCHANGED <<envVars, display_tz, idx, best, ret, via, tiers, answer,
                       tz, result, outcome, asked, notFound, geoCalls>>

\* get_local_datetime, lines 181-188
get_local_datetime ==
    \E loc \in Locations :
        /\ pc = "idle"
        /\ kind' = "legacy"
        /\ location' = loc
        /\ IF display_tz # None
           THEN /\ tz' = display_tz
                /\ pc' = "gld_loc"
                /\ UNCHANGED <<locale, retTo>>
           ELSE /\ locale' = home_code
                /\ retTo' = "home"
                /\ pc' = "gt_astral"
                /\ UNCHANGED tz
        /\ UNCHANGED <<envVars, display_tz, idx, best, ret, via, tiers, answer,
                       result, outcome, asked, notFound, geoCalls>>

\* get_local_datetime, lines 190-191
gld_location ==
    /\ pc = "gld_loc"
    /\ IF location # None
       THEN /\ locale' = location
            /\ retTo' = "loc"
            /\ tiers' = <<>>
            /\ via' = "none"
            /\ ret' = None
            /\ answer' = <<"unasked">>
            /\ pc' = "gt_astral"
       ELSE /\ pc' = "gld_end"
            /\ UNCHANGED <<locale, retTo, tiers, via, ret, answer>>
    /\ UNCHANGED <<envVars, display_tz, idx, best, reqVars>>

\* gld_return without the spoken notification
gld_return_silent ==
    /\ pc = "gld_end"
    /\ result' = IF tz = None THEN None ELSE tz
    /\ outcome' = "returned"
    /\ pc' = "done"
    /\ UNCHANGED <<envVars, display_tz, callVars, kind, location, tz, asked,
                   notFound, geoCalls>>

\* gld_return that keeps the resolved timezone as the display override
gld_return_caching ==
    /\ pc = "gld_end"
    /\ IF tz = None
       THEN /\ notFound' = notFound + 1
            /\ result' = None
            /\ UNCHANGED display_tz
       ELSE /\ result' = tz
            /\ display_tz' = tz
            /\ UNCHANGED notFound
    /\ outcome' = "returned"
    /\ pc' = "done"
    /\ UNCHANGED <<envVars, callVars, kind, location, tz, asked, geoCalls>>

\* get_local_datetime, lines 192-196
gld_return ==
    /\ pc = "gld_end"
    /\ IF tz = None
       THEN /\ notFound' = notFound + 1
            /\ result' = None
       ELSE /\ result' = tz
            /\ UNCHANGED notFound
    /\ outcome' = "returned"
    /\ pc' = "done"
    /\ UNCHANGED <<envVars, display_tz, callVars, kind, location, tz, asked,
                   geoCalls>>

\* get_timezone, lines 124-128: common city names
gt_astral ==
    /\ pc = "gt_astral"
    /\ tiers' = tiers \o <<"astral">>
    /\ LET city == AstralLookup(locale)
           zone == PytzTimezone(city.timezone, ci)
       IN  IF city.ok /\ zone.ok
           THEN GtReturn(zone.tz, "astral")
           ELSE /\ pc' = "gt_pytz"
                /\ UNCHANGED <<ret, via, tz, outcome>>
    /\ UNCHANGED <<envVars, display_tz, locale, retTo, idx, best, answer, kind,
                   location, result, asked, notFound, geoCalls>>

\* gt_pytz that goes on to the next tier although the identifier is known
gt_pytz_fallthrough ==
    /\ pc = "gt_pytz"
    /\ tiers' = tiers \o <<"pytz">>
    /\ pc' = "gt_trans"
    /\ UNCHANGED <<ret, via, tz, outcome>>
    /\ UNCHANGED <<envVars, display_tz, locale, retTo, idx, best, answer, kind,
                   location, result, asked, notFound, geoCalls>>

\* get_timezone, lines 130-134: codes like "America/Los_Angeles"
gt_pytz ==
    /\ pc = "gt_pytz"
    /\ tiers' = tiers \o <<"pytz">>
    /\ LET zone == PytzTimezone(locale, ci)
       IN  IF zone.ok
           THEN GtReturn(zone.tz, "pytz")
           ELSE /\ pc' = "gt_trans"
                /\ UNCHANGED <<ret, via, tz, outcome>>
    /\ UNCHANGED <<envVars, display_tz, locale, retTo, idx, best, answer, kind,
                   location, result, asked, notFound, geoCalls>>

\* get_timezone, lines 139-153: the translated-name table, then the set-up
\* of the fuzzy loop
gt_translated ==
    /\ pc = "gt_trans"
    /\ tiers' = tiers \o <<"translated">>
    /\ LET Hit(i) == Lower(locale) = Lower(timezones[i].key)
       IN  IF locale = None
           THEN \* locale.lower() on None, line 141 or line 152
                /\ GtRaise("AttributeError")
                /\ UNCHANGED <<idx, best>>
           ELSE IF \E i \in 1..Len(timezones) : Hit(i)
           THEN LET k == CHOOSE i \in 1..Len(timezones) :
                             Hit(i) /\ \A j \in 1..(i - 1) : ~Hit(j)
                    zone == PytzTimezone(Strip(timezones[k].val), ci)
                IN  /\ IF zone.ok
                       THEN GtReturn(zone.tz, "translated")
                       ELSE GtRaise("UnknownTimeZoneError")
                    /\ UNCHANGED <<idx, best>>
           ELSE /\ idx' = 1
                /\ best' = NoBest
                /\ pc' = "gt_loop"
                /\ UNCHANGED <<ret, via, tz, outcome>>
    /\ UNCHANGED <<envVars, display_tz, locale, retTo, answer, kind, location,
                   result, asked, notFound, geoCalls>>

\* get_timezone, lines 154-164: one iteration of the fuzzy loop
gt_fuzzy ==
    /\ pc = "gt_loop"
    /\ idx <= Len(all_timezones)
    /\ tiers' = IF idx = 1 THEN tiers \o <<"fuzzy">> ELSE tiers
    /\ best' = UpdateBest(best, NameScore(all_timezones[idx], Lower(locale)),
                          all_timezones[idx])
    /\ idx' = idx + 1
    /\ UNCHANGED <<envVars, display_tz, pc, locale, retTo, ret, via, answer,
                   reqVars>>

\* get_timezone, lines 165-168 and 178: the thresholds
gt_decide ==
    /\ pc = "gt_loop"
    /\ idx > Len(all_timezones)
    /\ IF best.set /\ Gt(best.pct, SolidChoice)
       THEN GtReturn(PytzTimezone(best.name, ci).tz, "fuzzy")
       ELSE IF best.set /\ Gt(best.pct, AskChoice)
       THEN /\ pc' = "gt_ask"
            /\ UNCHANGED <<ret, via, tz, outcome>>
       ELSE GtReturn(None, "none")
    /\ UNCHANGED <<envVars, display_tz, locale, retTo, idx, best, tiers,
                   answer, kind, location, result, asked, notFound, geoCalls>>

\* gt_confirm that accepts every answer but "no"
gt_confirm_not_no ==
    \E a \in Answers :
        /\ pc = "gt_ask"
        /\ tiers' = tiers \o <<"confirm">>
        /\ asked' = asked + 1
        /\ answer' = a
        /\ IF a # <<"no">>
           THEN GtReturn(PytzTimezone(best.name, ci).tz, "confirm")
           ELSE GtReturn(None, "none")
        /\ UNCHANGED <<envVars, display_tz, locale, retTo, idx, best, kind,
                       location, result, notFound, geoCalls>>

\* get_timezone, lines 169-178: the confirmation prompt
gt_confirm ==
    \E a \in Answers :
        /\ pc = "gt_ask"
        /\ tiers' = tiers \o <<"confirm">>
        /\ asked' = asked + 1
        /\ answer' = a
        /\ IF a = <<"yes">>
           THEN GtReturn(PytzTimezone(best.name, ci).tz, "confirm")
           ELSE GtReturn(None, "none")
        /\ UNCHANGED <<envVars, display_tz, locale, retTo, idx, best, kind,
                       location, result, notFound, geoCalls>>

\* handle_show_time, lines 304-308, up to the call of _get_timezone
handle_show_time ==
    \E loc \in Locations :
        /\ pc = "idle"
        /\ display_tz' = None
        /\ kind' = "show"
        /\ location' = loc
        /\ pc' = "gtz"
        /\ UNCHANGED <<envVars, callVars, tz, result, outcome, asked, notFound,
                       geoCalls>>

\* _get_timezone, lines 476-496, called by handle_show_time or, from idle,
\* by a time query (handle_query_time, handle_query_future_time) for loc
_get_timezone ==
    \E loc \in Locations, geo \in GeoOutcomes :
        /\ pc \in {"idle", "gtz"}
        /\ pc = "gtz" => loc = location
        /\ loc = None => geo.kind = "nokey"
        /\ location' = loc
        /\ kind' = IF pc = "idle" THEN "query" ELSE kind
        /\ geoCalls' = IF loc = None THEN geoCalls ELSE geoCalls + 1
        /\ LET keyError == IF loc = None THEN home_code = None
                           ELSE geo.kind = "nokey"
               raised == loc # None /\ geo.kind \in {"empty", "error"}
               tz_code == IF loc = None THEN home_code ELSE geo.code
               zone == PytzTimezone(tz_code, ci)
               found == ~keyError /\ zone.ok
           IN  IF raised
               THEN /\ outcome' = IF geo.kind = "empty" THEN "TypeError"
                                  ELSE "RequestError"
                    /\ pc' = "done"
                    /\ UNCHANGED <<tz, result, notFound>>
               ELSE /\ tz' = IF found THEN zone.tz ELSE None
                    /\ result' = tz'
                    /\ notFound' = IF found THEN notFound ELSE notFound + 1
                    /\ outcome' = "returned"
                    /\ pc' = IF kind' = "show" THEN "show_end" ELSE "done"
        /\ UNCHANGED <<envVars, display_tz, callVars, asked>>

\* handle_show_time, lines 309-311
show_time_set ==
    /\ pc = "show_end"
    /\ display_tz' = IF result # None THEN result ELSE display_tz
    /\ pc' = "done"
    /\ UNCHANGED <<envVars, callVars, reqVars>>

\* the request is over; its local variables go away
Finish ==
    /\ pc = "done"
    /\ pc' = "idle"
    /\ kind' = "none"
    /\ location' = None
    /\ locale' = None
    /\ retTo' = "none"
    /\ idx' = 0
    /\ best' = NoBest
    /\ tz' = None
    /\ ret' = None
    /\ via' = "none"
    /\ tiers' = <<>>
    /\ answer' = <<"unasked">>
    /\ result' = None
    /\ outcome' = "pending"
    /\ asked' = 0
    /\ notFound' = 0
    /\ geoCalls' = 0
    /\ UNCHANGED <<envVars, display_tz>>

\* the callers of update_display: the repeating timer event and
\* handle_show_time
Callers == {"timer", "handler"}

\* the display times of two successive minutes
Times == {<<"t0">>, <<"t1">>}

\* the display part at rest, as __init__ leaves it (lines 66-68)
DisplayIdle ==
    /\ answering_query = FALSE
    /\ displayed_time = None
    /\ gui_time = None
    /\ mouth = "clear"
    /\ mouth_events = TRUE
    /\ show_time = FALSE
    /\ display_idle = TRUE
    /\ mark1 = TRUE
    /\ clock = <<"t0">>
    /\ upc = [c \in Callers |-> "off"]
    /\ utime = [c \in Callers |-> None]
    /\ waited = FALSE
    /\ q_pc = "idle"
    /\ q_handler = "none"
    /\ overlap = {}

\* no call kept for comparison
NoMemo ==
    [set |-> FALSE, location |-> None, answer |-> <<"unasked">>,
     display_tz |-> None, result |-> None, outcome |-> "pending"]

\* the leap-year code at rest, and no call kept for comparison
LeapIdle ==
    /\ memo = NoMemo
    /\ ly_pc = "idle"
    /\ ly_kind = "none"
    /\ ly_now = None
    /\ ly_arg = 0
    /\ ly_year = 0
    /\ ly_depth = 0
    /\ ly_result = 0
    /\ ly_spoken = 0

\* the location extractor at rest
ExtractorIdle ==
    /\ patterns = <<>>
    /\ ex_pc = "off"
    /\ ex_i = 0
    /\ ex_location = None
    /\ ex_searched = 0
    /\ ex_outcome = "pending"

InitTz ==
    /\ LeapIdle
    /\ ExtractorIdle
    /\ DisplayIdle
    /\ timezones \in TranslatedTables
    /\ home_code \in HomeCodes
    /\ ci \in BOOLEAN
    /\ display_tz = None
    /\ pc = "idle"
    /\ kind = "none"
    /\ location = None
    /\ locale = None
    /\ retTo = "none"
    /\ idx = 0
    /\ best = NoBest
    /\ tz = None
    /\ ret = None
    /\ via = "none"
    /\ tiers = <<>>
    /\ answer = <<"unasked">>
    /\ result = None
    /\ outcome = "pending"
    /\ asked = 0
    /\ notFound = 0
    /\ geoCalls = 0

NextTz ==
    \/ get_local_datetime /\ UNCHANGED <<exVars, dVars, memo, lyVars>>
    \/ gld_location /\ UNCHANGED <<exVars, dVars, memo, lyVars>>
    \/ gld_return /\ UNCHANGED <<exVars, dVars, memo, lyVars>>
    \/ gt_astral /\ UNCHANGED <<exVars, dVars, memo, lyVars>>
    \/ gt_pytz /\ UNCHANGED <<exVars, dVars, memo, lyVars>>
    \/ gt_translated /\ UNCHANGED <<exVars, dVars, memo, lyVars>>
    \/ gt_fuzzy /\ UNCHANGED <<exVars, dVars, memo, lyVars>>
    \/ gt_decide /\ UNCHANGED <<exVars, dVars, memo, lyVars>>
    \/ gt_confirm /\ UNCHANGED <<exVars, dVars, memo, lyVars>>
    \/ handle_show_time /\ UNCHANGED <<exVars, dVars, memo, lyVars>>
    \/ _get_timezone /\ UNCHANGED <<exVars, dVars, memo, lyVars>>
    \/ show_time_set /\ UNCHANGED <<exVars, dVars, memo, lyVars>>
    \/ Finish /\ UNCHANGED <<exVars, dVars, memo, lyVars>>

SpecTz == InitTz /\ [][NextTz]_vars

\* ------------------------------------------------------------------------
\* Two get_local_datetime calls of one run, with other requests between
\* them.  The first one is kept in memo when it has finished.
\* ------------------------------------------------------------------------
\* the configurations of the comparison: a known home code, and an unknown
\* one that makes the home call ask for confirmation
IdemHomeCodes == {S_USCentral, S_MarsKnox}

\* keep the finished get_local_datetime call for comparison
Remember ==
    /\ pc = "done"
    /\ kind = "legacy"
    /\ ~memo.set
    /\ memo' = [set |-> TRUE, location |-> location, answer |-> answer,
                display_tz |-> display_tz, result |-> result,
                outcome |-> outcome]
    /\ UNCHANGED <<tzVars, exVars, dVars, lyVars>>

InitIdem ==
    /\ InitTz
    /\ timezones = <<>>
    /\ ci = FALSE
    /\ home_code \in IdemHomeCodes

NextIdem ==
    \/ get_local_datetime /\ UNCHANGED <<exVars, dVars, memo, lyVars>>
    \/ gld_location /\ UNCHANGED <<exVars, dVars, memo, lyVars>>
    \/ gld_return /\ UNCHANGED <<exVars, dVars, memo, lyVars>>
    \/ gt_astral /\ UNCHANGED <<exVars, dVars, memo, lyVars>>
    \/ gt_pytz /\ UNCHANGED <<exVars, dVars, memo, lyVars>>
    \/ gt_translated /\ UNCHANGED <<exVars, dVars, memo, lyVars>>
    \/ gt_fuzzy /\ UNCHANGED <<exVars, dVars, memo, lyVars>>
    \/ gt_decide /\ UNCHANGED <<exVars, dVars, memo, lyVars>>
    \/ gt_confirm /\ UNCHANGED <<exVars, dVars, memo, lyVars>>
    \/ handle_show_time /\ UNCHANGED <<exVars, dVars, memo, lyVars>>
    \/ _get_timezone /\ UNCHANGED <<exVars, dVars, memo, lyVars>>
    \/ show_time_set /\ UNCHANGED <<exVars, dVars, memo, lyVars>>
    \/ Finish /\ UNCHANGED <<exVars, dVars, memo, lyVars>>
    \/ Remember

SpecIdem == InitIdem /\ [][NextIdem]_vars

\* ------------------------------------------------------------------------
\* The location extractor.
\* ------------------------------------------------------------------------
MaxPatterns == 3

\* re.search(pattern, utterance) for one pattern of location.rx: no match;
\* a match of a pattern that has no group named Location (group() raises
\* IndexError); a match in which the group Location took no part (group()
\* gives None); a match with a captured text, which may be empty
S_paris ==
    <<"p", "a", "r", "i", "s">>
S_rome ==
    <<"r", "o", "m", "e">>
SearchResults ==
    { [matched |-> FALSE, group |-> "absent", text |-> None],
      [matched |-> TRUE, group |-> "absent", text |-> None],
      [matched |-> TRUE, group |-> "unset", text |-> None],
      [matched |-> TRUE, group |-> "set", text |-> <<>>],
      [matched |-> TRUE, group |-> "set", text |-> S_paris],
      [matched |-> TRUE, group |-> "set", text |-> S_rome] }

PatternLists ==
    UNION {[1..n -> SearchResults] : n \in 0..MaxPatterns}

\* _extract_location, lines 444-454 with a loop body that does not break
extract_search_no_break ==
    /\ ex_pc = "loop"
    /\ ex_i <= Len(patterns)
    /\ ex_searched' = ex_searched + 1
    /\ LET search_result == patterns[ex_i]
       IN  /\ ex_location' = IF search_result.matched /\ search_result.group = "set"
                             THEN search_result.text ELSE ex_location
           /\ ex_i' = ex_i + 1
           /\ UNCHANGED <<ex_pc, ex_outcome>>
    /\ UNCHANGED patterns

\* _extract_location, lines 445-454: one iteration of the loop
extract_search ==
    /\ ex_pc = "loop"
    /\ ex_i <= Len(patterns)
    /\ ex_searched' = ex_searched + 1
    /\ LET search_result == patterns[ex_i]
       IN  IF ~search_result.matched \/ search_result.group = "absent"
           THEN \* no match, or IndexError caught: next pattern
                /\ ex_i' = ex_i + 1
                /\ UNCHANGED <<ex_pc, ex_location, ex_outcome>>
           ELSE IF search_result.group = "unset"
           THEN \* location = None; the string concatenation of line 453
                \* raises TypeError
                /\ ex_location' = None
                /\ ex_outcome' = "TypeError"
                /\ ex_pc' = "done"
                /\ UNCHANGED ex_i
           ELSE \* location found: break
                /\ ex_location' = search_result.text
                /\ ex_pc' = "ret"
                /\ UNCHANGED <<ex_i, ex_outcome>>
    /\ UNCHANGED patterns

\* _extract_location, line 456, after the loop ended or broke
extract_return ==
    /\ ex_pc \in {"loop", "ret"}
    /\ ex_pc = "loop" => ex_i > Len(patterns)
    /\ ex_outcome' = "returned"
    /\ ex_pc' = "done"
    /\ UNCHANGED <<patterns, ex_i, ex_location, ex_searched>>

\* the resolver at rest
ResolverIdle ==
    /\ timezones = <<>>
    /\ home_code = None
    /\ ci = FALSE
    /\ display_tz = None
    /\ pc = "off"
    /\ kind = "none"
    /\ location = None
    /\ locale = None
    /\ retTo = "none"
    /\ idx = 0
    /\ best = NoBest
    /\ tz = None
    /\ ret = None
    /\ via = "none"
    /\ tiers = <<>>
    /\ answer = <<"unasked">>
    /\ result = None
    /\ outcome = "pending"
    /\ asked = 0
    /\ notFound = 0
    /\ geoCalls = 0

\* _extract_location is called on an utterance: lines 444-445, with the
\* patterns _get_location_patterns loaded (none when there is no file)
InitExtract ==
    /\ LeapIdle
    /\ patterns \in PatternLists
    /\ ex_pc = "loop"
    /\ ex_i = 1
    /\ ex_location = None
    /\ ex_searched = 0
    /\ ex_outcome = "pending"
    /\ ResolverIdle
    /\ DisplayIdle

NextExtract ==
    \/ extract_search /\ UNCHANGED <<tzVars, dVars, memo, lyVars>>
    \/ extract_return /\ UNCHANGED <<tzVars, dVars, memo, lyVars>>

SpecExtract == InitExtract /\ [][NextExtract]_vars

\* ------------------------------------------------------------------------
\* The display: the timer's update_display and the query handlers, each a
\* thread of its own, interleaved statement by statement.
\* ------------------------------------------------------------------------
\* the timer's call notes on touching display state whether a query handler
\* is in progress and whether answering_query is set
Touch(c) ==
    IF c = "timer"
    THEN overlap \cup (IF q_pc # "idle" THEN {"handler"} ELSE {})
                 \cup (IF answering_query THEN {"flag"} ELSE {})
    ELSE overlap

\* the repeating event scheduled by initialize (line 80) fires
timer_fire ==
    /\ upc["timer"] = "off"
    /\ upc' = [upc EXCEPT !["timer"] = "gate"]
    /\ UNCHANGED <<answering_query, displayed_time, gui_time, mouth,
                   mouth_events, show_time, display_idle, mark1, clock, utime,
                   waited, q_pc, q_handler, overlap, display_tz>>

\* update_display, lines 232-233: the flag is set, sleep(1)
update_display_wait ==
    \E c \in Callers :
        /\ upc[c] = "gate"
        /\ answering_query
        /\ waited' = TRUE
        /\ UNCHANGED <<answering_query, displayed_time, gui_time, mouth,
                       mouth_events, show_time, display_idle, mark1, clock,
                       upc, utime, q_pc, q_handler, overlap, display_tz>>

\* update_display, line 232: the flag is clear, the loop is left
update_display_gate ==
    \E c \in Callers :
        /\ upc[c] = "gate"
        /\ ~answering_query
        /\ upc' = [upc EXCEPT ![c] = "gui"]
        /\ UNCHANGED <<answering_query, displayed_time, gui_time, mouth,
                       mouth_events, show_time, display_idle, mark1, clock,
                       utime, waited, q_pc, q_handler, overlap, display_tz>>

\* update_display, lines 235-239: the gui values
update_display_gui ==
    \E c \in Callers :
        /\ upc[c] = "gui"
        /\ utime' = [utime EXCEPT ![c] = clock]
        /\ gui_time' = clock
        /\ overlap' = Touch(c)
        /\ upc' = [upc EXCEPT ![c] = "mouth"]
        /\ UNCHANGED <<answering_query, displayed_time, mouth, mouth_events,
                       show_time, display_idle, mark1, clock, waited, q_pc,
                       q_handler, display_tz>>

\* update_display, lines 241-254; force is set by handle_show_time only
update_display_mouth ==
    \E c \in Callers :
        /\ upc[c] = "mouth"
        /\ overlap' = Touch(c)
        /\ IF show_time \/ c = "handler"
           THEN IF display_idle
                THEN IF displayed_time # utime[c]
                     THEN \* _send_time_to_display, lines 545-549
                          /\ displayed_time' = utime[c]
                          /\ mouth' = IF mark1 THEN "time" ELSE mouth
                          /\ gui_time' = utime[c]
                     ELSE UNCHANGED <<displayed_time, mouth, gui_time>>
                ELSE /\ displayed_time' = None
                     /\ UNCHANGED <<mouth, gui_time>>
           ELSE /\ displayed_time' = None
                /\ mouth' = IF displayed_time # None /\ display_idle
                            THEN "clear" ELSE mouth
                /\ UNCHANGED gui_time
        /\ upc' = [upc EXCEPT ![c] = "off"]
        /\ waited' = IF c = "timer" THEN FALSE ELSE waited
        /\ IF c = "handler"
           THEN q_pc' = "idle" /\ q_handler' = "none"
           ELSE UNCHANGED <<q_pc, q_handler>>
        /\ UNCHANGED <<answering_query, mouth_events, show_time, display_idle,
                       mark1, clock, utime, display_tz>>

\* handle_query_time, lines 258-262, and handle_query_future_time, lines
\* 278-285: the handler starts and resolves the timezone
query_time_begin ==
    \E h \in {"time", "future"} :
        /\ q_pc = "idle"
        /\ q_handler' = h
        /\ q_pc' = "resolve"
        /\ UNCHANGED <<answering_query, displayed_time, gui_time, mouth,
                       mouth_events, show_time, display_idle, mark1, clock,
                       upc, utime, waited, overlap, display_tz>>

\* lines 263-267 and 286-292: the timezone is known and the time is spoken,
\* or the handler ends
query_time_speak ==
    \E found \in BOOLEAN :
        /\ q_pc = "resolve"
        /\ q_handler \in {"time", "future"}
        /\ q_pc' = IF found THEN "show" ELSE "idle"
        /\ q_handler' = IF found THEN q_handler ELSE "none"
        /\ UNCHANGED <<answering_query, displayed_time, gui_time, mouth,
                       mouth_events, show_time, display_idle, mark1, clock,
                       upc, utime, waited, overlap, display_tz>>

\* _show_time, lines 537-543
_show_time ==
    /\ q_pc = "show"
    /\ answering_query' = TRUE
    /\ mouth_events' = FALSE
    /\ mouth' = IF mark1 THEN "time" ELSE mouth
    /\ gui_time' = clock
    /\ q_pc' = "reset"
    /\ UNCHANGED <<displayed_time, show_time, display_idle, mark1, clock, upc,
                   utime, waited, q_handler, overlap, display_tz>>

\* _show_time, lines 539-542, when a call after the assignment raises
\* (the enclosure's deactivate_mouth_events, or mouth_display after it):
\* nothing catches the exception and the handler ends
_show_time_raises ==
    \E deactivated \in BOOLEAN :
        /\ q_pc = "show"
        /\ answering_query' = TRUE
        /\ mouth_events' = IF deactivated THEN FALSE ELSE mouth_events
        /\ q_pc' = "idle"
        /\ q_handler' = "none"
        /\ UNCHANGED <<displayed_time, gui_time, mouth, show_time,
                       display_idle, mark1, clock, upc, utime, waited,
                       overlap, display_tz>>

\* wait_while_speaking and _reset_display, lines 269-270, 294-295, 595-600
_reset_display ==
    /\ q_pc = "reset"
    /\ mouth' = "clear"
    /\ mouth_events' = TRUE
    /\ answering_query' = FALSE
    /\ displayed_time' = None
    /\ q_pc' = "idle"
    /\ q_handler' = "none"
    /\ UNCHANGED <<gui_time, show_time, display_idle, mark1, clock, upc, utime,
                   waited, overlap, display_tz>>

\* wait_while_speaking or mouth_reset raises (lines 269, 294, 597): the
\* handler ends before line 599
_reset_display_raises ==
    /\ q_pc = "reset"
    /\ q_pc' = "idle"
    /\ q_handler' = "none"
    /\ UNCHANGED <<answering_query, displayed_time, gui_time, mouth,
                   mouth_events, show_time, display_idle, mark1, clock, upc,
                   utime, waited, overlap, display_tz>>

\* handle_query_date, lines 313-373: the date is worked out and spoken, or
\* the handler returns early (lines 319, 350)
query_date_begin ==
    /\ q_pc = "idle"
    /\ q_handler' = "date"
    /\ q_pc' = "resolve"
    /\ UNCHANGED <<answering_query, displayed_time, gui_time, mouth,
                   mouth_events, show_time, display_idle, mark1, clock, upc,
                   utime, waited, overlap, display_tz>>

query_date_speak ==
    \E found \in BOOLEAN :
        /\ q_pc = "resolve"
        /\ q_handler = "date"
        /\ q_pc' = IF found THEN "date_show" ELSE "idle"
        /\ q_handler' = IF found THEN q_handler ELSE "none"
        /\ UNCHANGED <<answering_query, displayed_time, gui_time, mouth,
                       mouth_events, show_time, display_idle, mark1, clock,
                       upc, utime, waited, overlap, display_tz>>

\* handle_query_date, lines 376-379 with show_date, lines 602-610
query_date_show ==
    /\ q_pc = "date_show"
    /\ answering_query' = TRUE
    /\ mouth' = IF mark1 THEN "date" ELSE mouth
    /\ mouth_events' = IF mark1 THEN FALSE ELSE mouth_events
    /\ q_pc' = "date_end"
    /\ UNCHANGED <<displayed_time, gui_time, show_time, display_idle, mark1,
                   clock, upc, utime, waited, q_handler, overlap, display_tz>>

\* handle_query_date, lines 376-377, when show_date raises: the handler
\* ends before line 383
query_date_show_raises ==
    /\ q_pc = "date_show"
    /\ answering_query' = TRUE
    /\ q_pc' = "idle"
    /\ q_handler' = "none"
    /\ UNCHANGED <<displayed_time, gui_time, mouth, mouth_events, show_time,
                   display_idle, mark1, clock, upc, utime, waited, overlap,
                   display_tz>>

\* handle_query_date, lines 380-384
query_date_end ==
    /\ q_pc = "date_end"
    /\ mouth' = IF mark1 THEN "clear" ELSE mouth
    /\ mouth_events' = IF mark1 THEN TRUE ELSE mouth_events
    /\ answering_query' = FALSE
    /\ displayed_time' = None
    /\ q_pc' = "idle"
    /\ q_handler' = "none"
    /\ UNCHANGED <<gui_time, show_time, display_idle, mark1, clock, upc, utime,
                   waited, overlap, display_tz>>

\* handle_show_time, lines 304-308
show_time_begin ==
    /\ q_pc = "idle"
    /\ q_handler' = "show"
    /\ display_tz' = None
    /\ q_pc' = "resolve"
    /\ UNCHANGED <<answering_query, displayed_time, gui_time, mouth,
                   mouth_events, show_time, display_idle, mark1, clock, upc,
                   utime, waited, overlap>>

\* handle_show_time, lines 309-311: update_display(force=True) is entered
show_time_update ==
    \E found \in BOOLEAN :
        /\ q_pc = "resolve"
        /\ q_handler = "show"
        /\ IF found
           THEN /\ display_tz' = S_AustraliaSydney
                /\ upc' = [upc EXCEPT !["handler"] = "gate"]
                /\ q_pc' = "update"
                /\ UNCHANGED q_handler
           ELSE /\ q_pc' = "idle"
                /\ q_handler' = "none"
                /\ UNCHANGED <<display_tz, upc>>
        /\ UNCHANGED <<answering_query, displayed_time, gui_time, mouth,
                       mouth_events, show_time, display_idle, mark1, clock,
                       utime, waited, overlap>>

\* the minute changes
Tick ==
    /\ clock' = IF clock = <<"t0">> THEN <<"t1">> ELSE <<"t0">>
    /\ UNCHANGED <<answering_query, displayed_time, gui_time, mouth,
                   mouth_events, show_time, display_idle, mark1, upc, utime,
                   waited, q_pc, q_handler, overlap, display_tz>>

\* another skill takes or releases the display (display_is_idle, line 115)
OtherSkill ==
    /\ display_idle' = ~display_idle
    /\ UNCHANGED <<answering_query, displayed_time, gui_time, mouth,
                   mouth_events, show_time, mark1, clock, upc, utime, waited,
                   q_pc, q_handler, overlap, display_tz>>

InitDisplay ==
    /\ LeapIdle
    /\ answering_query = FALSE
    /\ displayed_time = None
    /\ gui_time = None
    /\ mouth = "clear"
    /\ mouth_events = TRUE
    /\ show_time \in BOOLEAN
    /\ display_idle = TRUE
    /\ mark1 \in BOOLEAN
    /\ clock = <<"t0">>
    /\ upc = [c \in Callers |-> "off"]
    /\ utime = [c \in Callers |-> None]
    /\ waited = FALSE
    /\ q_pc = "idle"
    /\ q_handler = "none"
    /\ overlap = {}
    /\ ResolverIdle
    /\ ExtractorIdle

NextDisplay ==
    \/ timer_fire /\ UNCHANGED <<tzRest, exVars, memo, lyVars>>
    \/ update_display_wait /\ UNCHANGED <<tzRest, exVars, memo, lyVars>>
    \/ update_display_gate /\ UNCHANGED <<tzRest, exVars, memo, lyVars>>
    \/ update_display_gui /\ UNCHANGED <<tzRest, exVars, memo, lyVars>>
    \/ update_display_mouth /\ UNCHANGED <<tzRest, exVars, memo, lyVars>>
    \/ query_time_begin /\ UNCHANGED <<tzRest, exVars, memo, lyVars>>
    \/ query_time_speak /\ UNCHANGED <<tzRest, exVars, memo, lyVars>>
    \/ _show_time /\ UNCHANGED <<tzRest, exVars, memo, lyVars>>
    \/ _reset_display /\ UNCHANGED <<tzRest, exVars, memo, lyVars>>
    \/ query_date_begin /\ UNCHANGED <<tzRest, exVars, memo, lyVars>>
    \/ query_date_speak /\ UNCHANGED <<tzRest, exVars, memo, lyVars>>
    \/ query_date_show /\ UNCHANGED <<tzRest, exVars, memo, lyVars>>
    \/ query_date_end /\ UNCHANGED <<tzRest, exVars, memo, lyVars>>
    \/ _show_time_raises /\ UNCHANGED <<tzRest, exVars, memo, lyVars>>
    \/ _reset_display_raises /\ UNCHANGED <<tzRest, exVars, memo, lyVars>>
    \/ query_date_show_raises /\ UNCHANGED <<tzRest, exVars, memo, lyVars>>
    \/ show_time_begin /\ UNCHANGED <<tzRest, exVars, memo, lyVars>>
    \/ show_time_update /\ UNCHANGED <<tzRest, exVars, memo, lyVars>>
    \/ Tick /\ UNCHANGED <<tzRest, exVars, memo, lyVars>>
    \/ OtherSkill /\ UNCHANGED <<tzRest, exVars, memo, lyVars>>

SpecDisplay == InitDisplay /\ [][NextDisplay]_vars

\* ------------------------------------------------------------------------
\* The leap-year intent.
\* ------------------------------------------------------------------------
\* the years of the requests: they span 1900, which is no leap year, and
\* 2000, which is one
MinYear == 1895
MaxYear == 2030

\* is_leap_year without the century rules
is_leap_year_julian(year) == year % 4 = 0

\* is_leap_year, lines 634-635
is_leap_year(year) ==
    (year % 400 = 0) \/ ((year % 4 = 0) /\ (year % 100 # 0))

\* days of the year that datetime.datetime.now() falls on: mid January,
\* the days around the end of February, the last day of the year
MonthDays == {<<1, 15>>, <<2, 27>>, <<2, 28>>, <<2, 29>>, <<3, 1>>, <<12, 31>>}

\* hours of the day: midnight and noon
Hours == {0, 12}

\* values of datetime.datetime.now(); February 29 exists in leap years only
Nows ==
    { now \in { [year |-> y, month |-> md[1], day |-> md[2], hour |-> h] :
                    y \in MinYear..MaxYear, md \in MonthDays, h \in Hours } :
        (now.month = 2 /\ now.day = 29) => is_leap_year(now.year) }

\* a <= b for two datetime values
DatetimeLe(a, b) ==
    \/ a.year < b.year
    \/ a.year = b.year /\ a.month < b.month
    \/ a.year = b.year /\ a.month = b.month /\ a.day < b.day
    \/ a.year = b.year /\ a.month = b.month /\ a.day = b.day /\ a.hour <= b.hour

\* a direct call get_next_leap_year(y), lines 627-628
get_next_leap_year_call ==
    \E y \in MinYear..MaxYear :
        /\ ly_pc = "idle"
        /\ ly_kind' = "call"
        /\ ly_arg' = y
        /\ ly_year' = y
        /\ ly_depth' = 1
        /\ ly_pc' = "next"
        /\ UNCHANGED <<ly_now, ly_result, ly_spoken>>

\* handle_query_next_leap_year, lines 436-439, up to the call
handle_query_next_leap_year ==
    \E now \in Nows :
        LET leap_date == [year |-> now.year, month |-> 2, day |-> 28, hour |-> 0]
            year == IF DatetimeLe(now, leap_date) THEN now.year
                    ELSE now.year + 1
        IN  /\ ly_pc = "idle"
            /\ ly_kind' = "handler"
            /\ ly_now' = now
            /\ ly_arg' = year
            /\ ly_year' = year
            /\ ly_depth' = 1
            /\ ly_pc' = "next"
            /\ UNCHANGED <<ly_result, ly_spoken>>

\* get_next_leap_year, lines 628-632: one frame of the recursion; the
\* result goes back through every frame unchanged
get_next_leap_year ==
    /\ ly_pc = "next"
    /\ LET next_year == ly_year + 1
       IN  IF is_leap_year(next_year)
           THEN /\ ly_result' = next_year
                /\ ly_pc' = IF ly_kind = "handler" THEN "speak" ELSE "done"
                /\ UNCHANGED <<ly_year, ly_depth>>
           ELSE /\ ly_year' = next_year
                /\ ly_depth' = ly_depth + 1
                /\ UNCHANGED <<ly_pc, ly_result>>
    /\ UNCHANGED <<ly_kind, ly_now, ly_arg, ly_spoken>>

\* handle_query_next_leap_year, line 440
speak_next_leap_year ==
    /\ ly_pc = "speak"
    /\ ly_spoken' = ly_result
    /\ ly_pc' = "done"
    /\ UNCHANGED <<ly_kind, ly_now, ly_arg, ly_year, ly_depth, ly_result>>

\* the request is over; its local variables go away
LeapFinish ==
    /\ ly_pc = "done"
    /\ ly_pc' = "idle"
    /\ ly_kind' = "none"
    /\ ly_now' = None
    /\ ly_arg' = 0
    /\ ly_year' = 0
    /\ ly_depth' = 0
    /\ ly_result' = 0
    /\ ly_spoken' = 0

InitLeap ==
    /\ ResolverIdle
    /\ ExtractorIdle
    /\ DisplayIdle
    /\ LeapIdle

NextLeap ==
    \/ get_next_leap_year_call /\ UNCHANGED <<tzVars, exVars, dVars, memo>>
    \/ handle_query_next_leap_year /\ UNCHANGED <<tzVars, exVars, dVars, memo>>
    \/ get_next_leap_year /\ UNCHANGED <<tzVars, exVars, dVars, memo>>
    \/ speak_next_leap_year /\ UNCHANGED <<tzVars, exVars, dVars, memo>>
    \/ LeapFinish /\ UNCHANGED <<tzVars, exVars, dVars, memo>>

SpecLeap == InitLeap /\ [][NextLeap]_vars

\* ------------------------------------------------------------------------
\* Properties of the timezone resolver (checked under SpecTz).
\* ------------------------------------------------------------------------
\* the city tier yields a timezone for l
AstralOk(l) ==
    AstralLookup(l).ok /\ PytzTimezone(AstralLookup(l).timezone, ci).ok

\* the identifier tier yields a timezone for l
PytzOk(l) == PytzTimezone(l, ci).ok

\* the translated-name table has an entry for l
TransHit(l) ==
    l # None /\ \E i \in 1..Len(timezones) : Lower(l) = Lower(timezones[i].key)

\* the identifier of the first entry for l, stripped
TransCode(l) ==
    LET Hit(i) == Lower(l) = Lower(timezones[i].key)
    IN  Strip(timezones[CHOOSE i \in 1..Len(timezones) :
                            Hit(i) /\ \A j \in 1..(i - 1) : ~Hit(j)].val)

\* the last get_timezone call has returned a value to its call site
CallReturned ==
    /\ pc \in {"gld_loc", "gld_end", "done"}
    /\ tiers # <<>>
    /\ outcome \in {"pending", "returned"}

Entered(t) == \E i \in 1..Len(tiers) : tiers[i] = t

\* the score lies in (0.3, 0.8]
InAskRange(p) == Gt(p, AskChoice) /\ ~Gt(p, SolidChoice)

\* the last component of an identifier
ShortName(name) == LET parts == Split(name, "/") IN parts[Len(parts)]

\* C1: the tiers are entered in the order city table, identifier, translated
\* table, fuzzy loop, confirmation; the fuzzy loop and the confirmation are
\* entered only for a locale for which the city, identifier and translated
\* tiers all failed; and when one of these tiers succeeds the call returns
\* that tier's timezone having entered no later tier.
C1_TiersShortCircuit ==
    /\ \A i \in 1..Len(tiers) : i <= Len(TierOrder) /\ tiers[i] = TierOrder[i]
    /\ (pc \in {"gt_loop", "gt_ask"} \/ Entered("fuzzy") \/ Entered("confirm"))
         => ~AstralOk(locale) /\ ~PytzOk(locale) /\ ~TransHit(locale)
    /\ CallReturned =>
         /\ AstralOk(locale) =>
              /\ tiers = <<"astral">>
              /\ ret = PytzTimezone(AstralLookup(locale).timezone, ci).tz
         /\ (~AstralOk(locale) /\ PytzOk(locale)) =>
              /\ tiers = <<"astral", "pytz">>
              /\ ret = PytzTimezone(locale, ci).tz
         /\ (~AstralOk(locale) /\ ~PytzOk(locale) /\ TransHit(locale)) =>
              /\ tiers = <<"astral", "pytz", "translated">>
              /\ ret = PytzTimezone(TransCode(locale), ci).tz

\* a call returned the timezone of the translated-name table
C1_Witness ==
    /\ CallReturned
    /\ via = "translated"
    /\ locale = S_china
    /\ ret = S_AsiaShanghai

\* C2: a get_timezone call whose best fuzzy score lies in (0.3, 0.8] has
\* issued exactly one confirmation prompt when it returns, and returns the
\* candidate identifier if the answer was "yes" and None for "no" or None.
C2_ConfirmOnce ==
    (CallReturned /\ Entered("fuzzy") /\ best.set /\ InAskRange(best.pct)) =>
        /\ Cardinality({i \in 1..Len(tiers) : tiers[i] = "confirm"}) = 1
        /\ asked >= 1
        /\ answer \in Answers
        /\ ret = IF answer = <<"yes">> THEN best.name ELSE None

\* a call for "knox" (score 8/11) was answered "yes" and returned the candidate
C2_Witness ==
    /\ CallReturned
    /\ locale = S_knox
    /\ InAskRange(best.pct)
    /\ answer = <<"yes">>
    /\ ret = S_AmericaKnoxIN

\* C3: a get_timezone call for a location equal, ignoring case, to the short
\* name (last component) of a known identifier returns an identifier with
\* that short name without a confirmation prompt; and a call whose best
\* fuzzy score exceeds 0.8 returns the best identifier without a prompt.
C3_ShortNameSilent ==
    /\ (/\ CallReturned
        /\ locale # None
        /\ \E i \in 1..Len(all_timezones) :
               Lower(ShortName(all_timezones[i])) = Lower(locale))
         => /\ ~Entered("confirm")
            /\ ret # None
            /\ Lower(ShortName(ret)) = Lower(locale)
    /\ (CallReturned /\ Entered("fuzzy") /\ Gt(best.pct, SolidChoice))
         => ~Entered("confirm") /\ ret = best.name

\* no tier matched the locale of the last call
NoTierMatched ==
    /\ CallReturned
    /\ Entered("fuzzy")
    /\ best.set
    /\ ~Gt(best.pct, AskChoice)

\* C4: a get_timezone call for which no tier matches returns None without a
\* confirmation prompt, and the request that made the call for its location
\* ends with None and exactly one "not found" notification; _get_timezone
\* likewise speaks exactly one notification when it returns None, and no
\* request speaks more than one.
C4_NotFoundOnce ==
    /\ NoTierMatched =>
         ret = None /\ ~Entered("confirm") /\ answer = <<"unasked">>
    /\ (pc = "done" /\ kind = "legacy" /\ location # None /\ NoTierMatched) =>
         outcome = "returned" /\ result = None /\ notFound = 1
    /\ (pc \in {"done", "show_end"} /\ kind \in {"query", "show"}
        /\ outcome = "returned" /\ result = None) =>
         notFound = 1 /\ asked = 0
    /\ notFound <= 1

\* the request for "qqq" ended with None and one notification
C4_Witness ==
    /\ pc = "done"
    /\ kind = "legacy"
    /\ location = S_qqq
    /\ NoTierMatched
    /\ result = None
    /\ notFound = 1

\* C5: no resolution request ends with an exception.
C5_NeverRaises == outcome \in {"pending", "returned"}

\* C9 as claimed: a request without a location makes no geolocation lookup,
\* enters no tier and issues no prompt, and it returns the display override
\* (legacy path, when active) or else the timezone of the configured home
\* code.
C9_NoLocationBypass ==
    (kind \in {"legacy", "query", "show"} /\ location = None) =>
        /\ geoCalls = 0
        /\ tiers = <<>>
        /\ asked = 0
        /\ pc = "done" =>
             /\ outcome = "returned"
             /\ result = IF kind = "legacy" /\ display_tz # None
                         THEN display_tz
                         ELSE PytzTimezone(home_code, ci).tz

\* C9 as amended: a request without a location makes no geolocation lookup.
\* _get_timezone enters no tier and issues no prompt and returns the timezone
\* of the configured home code, or None with one notification when the code
\* is missing or unknown.  get_local_datetime returns the active display
\* override without entering a tier; with no override it runs get_timezone
\* on the configured home code, which returns the home timezone from the
\* city or identifier tier without a prompt when one of them knows the code.
C9_NoLocationHome ==
    (pc = "done" /\ kind \in {"legacy", "query", "show"} /\ location = None) =>
        /\ geoCalls = 0
        /\ kind \in {"query", "show"} =>
             /\ tiers = <<>>
             /\ asked = 0
             /\ outcome = "returned"
             /\ result = PytzTimezone(home_code, ci).tz
             /\ notFound = IF result = None THEN 1 ELSE 0
        /\ (kind = "legacy" /\ display_tz # None) =>
             /\ tiers = <<>>
             /\ asked = 0
             /\ outcome = "returned"
             /\ result = display_tz
        /\ (kind = "legacy" /\ display_tz = None) =>
             /\ locale = home_code
             /\ tiers # <<>>
             /\ (AstralOk(home_code) \/ PytzOk(home_code)) =>
                  /\ asked = 0
                  /\ via \in {"astral", "pytz"}
                  /\ outcome = "returned"
                  /\ result = ret
                  /\ ~AstralOk(home_code) =>
                       result = PytzTimezone(home_code, ci).tz

\* a legacy request without location returned the display override
C9_Witness ==
    /\ pc = "done"
    /\ kind = "legacy"
    /\ location = None
    /\ display_tz = S_AustraliaSydney
    /\ result = S_AustraliaSydney
    /\ home_code = S_USCentral

\* the comparison scores of one identifier: one for a single component,
\* three otherwise
Comparisons(name, target) ==
    LET normalized == Split(Replace(Lower(name), "_", " "), "/")
        L == Len(normalized)
    IN  IF L = 1
        THEN {fuzzy_match(normalized[1], target)}
        ELSE {fuzzy_match(normalized[2], target),
              fuzzy_match(normalized[L - 1] \o <<" ">> \o normalized[L], target),
              fuzzy_match(normalized[L] \o <<" ">> \o normalized[L - 1], target)}

\* the score n/d is the maximum of the set S of scores
IsMaxOf(p, S) ==
    /\ \E q \in S : q.n * p.d = p.n * q.d
    /\ \A q \in S : Ge(p, q)

\* C10: after n iterations of the fuzzy loop, best holds the maximum over
\* the first n identifiers of the per-identifier maximum of the comparison
\* scores, with the last identifier in list order that attains it.
C10_LastBestWins ==
    (pc \in {"gt_loop", "gt_ask"} /\ idx > 1) =>
        LET n == idx - 1
            target == Lower(locale)
            Score(i) == CHOOSE p \in Comparisons(all_timezones[i], target) :
                            IsMaxOf(p, Comparisons(all_timezones[i], target))
        IN  /\ best.set
            /\ IsMaxOf(best.pct, {Score(i) : i \in 1..n})
            /\ \E k \in 1..n :
                   /\ best.name = all_timezones[k]
                   /\ Score(k).n * best.pct.d = best.pct.n * Score(k).d
                   /\ \A j \in (k + 1)..n : Gt(best.pct, Score(j))

\* the loop has ended for "eastern", which Canada/Eastern and US/Eastern
\* both match with score 1; the later one is held
C10_Witness ==
    /\ pc = "gt_loop"
    /\ idx > Len(all_timezones)
    /\ locale = S_eastern
    /\ best.name = S_USEastern
    /\ Ge(NameScore(S_CanadaEastern, Lower(locale)), best.pct)

\* ------------------------------------------------------------------------
\* Properties of the location extractor (checked under SpecExtract).
\* ------------------------------------------------------------------------
\* pattern i matches and yields a Location capture
Captures(i) == patterns[i].matched /\ patterns[i].group = "set"

\* C6: when _extract_location returns, the result is the Location capture of
\* the first pattern in file order that matches with such a capture, and no
\* pattern after that one was searched; when no pattern matches, the result
\* is None (not the empty string) and every pattern was searched.
C6_FirstMatchWins ==
    (ex_pc = "done" /\ ex_outcome = "returned") =>
        /\ (\E i \in 1..Len(patterns) : Captures(i)) =>
             LET k == CHOOSE i \in 1..Len(patterns) :
                          Captures(i) /\ \A j \in 1..(i - 1) : ~Captures(j)
             IN  ex_location = patterns[k].text /\ ex_searched = k
        /\ (\A i \in 1..Len(patterns) : ~patterns[i].matched) =>
             ex_location = None /\ ex_searched = Len(patterns)

\* two patterns capture a location; the first one's capture is returned
C6_Witness ==
    /\ ex_pc = "done"
    /\ ex_outcome = "returned"
    /\ Len(patterns) = 3
    /\ ~patterns[1].matched
    /\ patterns[2].text = S_paris
    /\ patterns[3].text = S_rome
    /\ ex_location = S_paris
    /\ ex_searched = 2

\* C7: a pattern that matches without a usable Location capture (no such
\* group, or the group took no part in the match) counts as no match: no
\* exception ends _extract_location, the later patterns are still searched
\* in order, and the result is None when no pattern yields a capture.
C7_CaptureFailureSwallowed ==
    /\ ex_outcome \in {"pending", "returned"}
    /\ ex_pc = "done" =>
         IF \E i \in 1..Len(patterns) : Captures(i)
         THEN LET k == CHOOSE i \in 1..Len(patterns) :
                           Captures(i) /\ \A j \in 1..(i - 1) : ~Captures(j)
              IN  ex_location = patterns[k].text /\ ex_searched = k
         ELSE ex_location = None /\ ex_searched = Len(patterns)

\* ------------------------------------------------------------------------
\* Properties of the display (checked under SpecDisplay).
\* ------------------------------------------------------------------------
\* C8: the timer's update_display call never reads or writes display state
\* (gui values, displayed_time, the mouth display) while a query handler is
\* in progress or while answering_query is set.
C8_TimerWaitsForQuery == overlap = {}

\* ------------------------------------------------------------------------
\* Properties of repeated resolution (checked under SpecIdem).
\* ------------------------------------------------------------------------
\* the finished get_local_datetime call has the input and the confirmation
\* answer of the call kept in memo (configuration and collaborators are
\* the same throughout a run)
SameCall ==
    /\ pc = "done"
    /\ kind = "legacy"
    /\ memo.set
    /\ memo.location = location
    /\ memo.answer = answer

\* what the call gave its caller
SameOutput ==
    /\ result = memo.result
    /\ outcome = memo.outcome

\* C11 as stated: two calls with the same input, configuration,
\* collaborator responses and confirmation answers give the same output,
\* whatever other requests ran between them
C11_SameOutputAlways == SameCall => SameOutput

\* C11, amended: two get_local_datetime calls with the same input,
\* configuration, collaborator responses and confirmation answers give the
\* same output when self.display_tz is the same at both; and no step of a
\* get_local_datetime call or of a time query writes self.display_tz (only
\* handle_show_time does)
C11_SameOutputSameOverride ==
    /\ [](SameCall /\ memo.display_tz = display_tz => SameOutput)
    /\ [][kind' \in {"legacy", "query"} => display_tz' = display_tz]_vars

\* a second call like the kept one, under the override that a show-time
\* request set before both, is finished
C11_Witness ==
    /\ SameCall
    /\ memo.display_tz = display_tz
    /\ display_tz = S_AustraliaSydney
    /\ location = S_knox
    /\ answer = <<"yes">>
    /\ result = S_AmericaKnoxIN

\* ------------------------------------------------------------------------
\* Properties of the leap-year intent (checked under SpecLeap).
\* ------------------------------------------------------------------------
\* k divides y
Divides(k, y) == (y \div k) * k = y

\* the Gregorian rule, stated by divisibility
Gregorian(y) == Divides(400, y) \/ (Divides(4, y) /\ ~Divides(100, y))

\* the years is_leap_year has been asked about in this request
Tested == (ly_arg + 1)..(IF ly_pc = "next" THEN ly_year ELSE ly_result)

\* C12: is_leap_year(y) is true exactly when y is divisible by 400, or by 4
\* and not by 100 (2000 and 2024 are leap years, 1900 is not);
\* get_next_leap_year(y) returns the smallest leap year strictly greater
\* than y (2028 for 2024), and its recursion is never deeper than 8
C12_NextLeapYear ==
    /\ is_leap_year(2000) /\ is_leap_year(2024) /\ ~is_leap_year(1900)
    /\ \A z \in Tested : is_leap_year(z) <=> Gregorian(z)
    /\ ly_depth <= 8
    /\ ly_pc \in {"speak", "done"} =>
          /\ ly_result > ly_arg
          /\ Gregorian(ly_result)
          /\ \A z \in (ly_arg + 1)..(ly_result - 1) : ~Gregorian(z)
          /\ ly_arg = 2024 => ly_result = 2028

\* get_next_leap_year(1896) has returned 1904 from its eighth frame
C12_Witness ==
    /\ ly_pc = "done"
    /\ ly_kind = "call"
    /\ ly_arg = 1896
    /\ ly_result = 1904
    /\ ly_depth = 8

\* February 29 of year z has not passed at the time now
Upcoming(z, now) ==
    \/ z > now.year
    \/ z = now.year /\ now.month <= 2

\* C14: the year handle_query_next_leap_year announces is the earliest
\* leap year whose February 29 has not yet passed: a leap year, not before
\* the current year, with no such leap year skipped
C14_EarliestUpcoming ==
    ly_pc = "done" /\ ly_kind = "handler" =>
        /\ Gregorian(ly_spoken)
        /\ ly_spoken >= ly_now.year
        /\ Upcoming(ly_spoken, ly_now)
        /\ \A z \in ly_now.year..(ly_spoken - 1) :
               ~(Gregorian(z) /\ Upcoming(z, ly_now))

\* ------------------------------------------------------------------------
\* Properties of the busy flag (checked under SpecDisplay).
\* ------------------------------------------------------------------------
\* C13: every handler that sets answering_query sets it back on every path,
\* failing steps included: no query has ended with answering_query still
\* True (so a timer callback polling the flag gets to proceed)
C13_FlagClearedAtEnd == q_pc = "idle" => answering_query = FALSE

====
